---- MODULE Spec2Model ----
(***************************************************************************)
(* The install-as-a-service handler of as-a-service/pip-install.          *)
(*                                                                         *)
(* Two builds of the same pipeline exist: the pip build (src/main.go),    *)
(* which accepts multipart/form-data and JSON, and the npm build          *)
(* (src/unnamed/part_002), which decodes every body as JSON.  The variable *)
(* backend says which build the server is.  Every request is handled by   *)
(* its own goroutine running handleInstall; the only state the goroutines *)
(* share is the filesystem fs.                                            *)
(*                                                                         *)
(* Paths are sequences of components; a temporary directory is the one    *)
(* component <<tmpDir>>.  The body of a request is described by its        *)
(* format, the fields it carries, its total size in bytes and the offset  *)
(* at which its first JSON value ends.                                    *)
(***************************************************************************)
EXTENDS Integers, Sequences, FiniteSets, TLC

VARIABLES backend, env, req, pc, bodyRead, pyFiles, tmpDir, fs, cmd, w,
          connOK, zipWriter, todo, walkErr, logs

vars == <<backend, env, req, pc, bodyRead, pyFiles, tmpDir, fs, cmd, w,
          connOK, zipWriter, todo, walkErr, logs>>

(* ------------------------------ bounds -------------------------------- *)

\* Number of connections the server handles (one goroutine each).
NumRequests == 2

\* Number of random suffixes os.MkdirTemp can draw.
NumNames == 2

\* Size in bytes of an ordinary small request body.
SmallBody == 64

Requests == 1..NumRequests

(* ----------------------- the two builds' constants --------------------- *)

Backends == {"pip", "npm"}

workDirPrefix(b) == IF b = "pip" THEN "pip_work_" ELSE "npm_work_"

\* The JSON key / form field of the mandatory descriptor.
PrimaryName(b) == IF b = "pip" THEN "requirements.txt" ELSE "package.json"

\* The JSON key / form field of the optional lock or constraints descriptor.
LockName(b) == IF b = "pip" THEN "constraints.txt" ELSE "package-lock.json"

\* The directory the installer fills and the handler archives.
OutputDir(b) == IF b = "pip" THEN "site-packages" ELSE "node_modules"

InstallerName(b) == IF b = "pip" THEN "pip" ELSE "npm"

Disposition(b) ==
  IF b = "pip" THEN "attachment; filename=\"python_packages.zip\""
  ELSE "attachment; filename=\"npm_build.zip\""

\* io.LimitReader(r.Body, 10*1024*1024)
JSONLimit == 10 * 1024 * 1024

\* r.ParseMultipartForm(20 << 20): the in-memory threshold for file parts.
MaxMemory == 20 * 1048576

StatusOK == 200
StatusBadRequest == 400
StatusMethodNotAllowed == 405
StatusInternalServerError == 500

(* ------------------------------ requests ------------------------------ *)

MethodPost == "POST"

Methods == {"POST", "GET"}

\* A Content-Type header as its media type followed by its parameters; <<>>
\* is a request without the header.
ContentTypes ==
  { <<"multipart/form-data", "boundary=X">>, <<"multipart/form-data">>,
    <<"application/json">>, <<>> }

PrimaryTexts == {"", "flask"}
LockTexts == {"", "flask==3.0"}

\* The fields a well-formed body may carry: any subset of the two names.
FieldSets(b) ==
  { f \in UNION { [S -> PrimaryTexts \cup LockTexts] :
                    S \in SUBSET {PrimaryName(b), LockName(b)} } :
      /\ PrimaryName(b) \in DOMAIN f => f[PrimaryName(b)] \in PrimaryTexts
      /\ LockName(b) \in DOMAIN f => f[LockName(b)] \in LockTexts }

BodySizes == {SmallBody, JSONLimit, JSONLimit + 1, MaxMemory + 1}

\* size: bytes in the body; valueEnd: offset where its first JSON value (or
\* the whole multipart message) ends, the rest being trailing bytes.
BodyShapes ==
  { s \in [size : BodySizes, valueEnd : BodySizes] :
      s.valueEnd \in {SmallBody, s.size} }

Bodies(b) ==
  { [format |-> fm, fields |-> f, size |-> s.size, valueEnd |-> s.valueEnd] :
      fm \in {"multipart", "json"}, f \in FieldSets(b), s \in BodyShapes }
  \cup
  { [format |-> "malformed", fields |-> <<>>, size |-> s, valueEnd |-> s] :
      s \in BodySizes }

AllRequests(b) ==
  { [method |-> m, contentType |-> ct, body |-> bd] :
      m \in Methods, ct \in ContentTypes, bd \in Bodies(b) }

JSONRequest(b, primary, lock) ==
  [method |-> "POST", contentType |-> <<"application/json">>,
   body |-> [format |-> "json",
             fields |-> IF lock = "" THEN (PrimaryName(b) :> primary)
                        ELSE (PrimaryName(b) :> primary) @@ (LockName(b) :> lock),
             size |-> SmallBody, valueEnd |-> SmallBody]]

\* The different manifests clients send at the same time.
ConcRequests(b) ==
  { JSONRequest(b, "flask", ""), JSONRequest(b, "django", "django==5.0") }

NoRequest ==
  [method |-> "", contentType |-> <<>>,
   body |-> [format |-> "malformed", fields |-> <<>>, size |-> 0, valueEnd |-> 0]]

(* ------------------------- the environment ---------------------------- *)

\* Trees the installer can leave in its output directory: the nodes below the
\* output directory, as paths relative to it.
TreeEmpty == {}
TreeAB == { [rel |-> <<"a">>, isDir |-> TRUE],
            [rel |-> <<"a", "b.txt">>, isDir |-> FALSE] }
TreeABE == TreeAB \cup { [rel |-> <<"e">>, isDir |-> TRUE] }
TreeFlat == { [rel |-> <<"c.txt">>, isDir |-> FALSE] }

\* What one run of the installer does: err is cmd.Run's error ("" is nil),
\* stderr what it printed, hasOut whether the output directory exists after
\* the run and tree what is below it.
Outcome(e, se, h, t) == [err |-> e, stderr |-> se, hasOut |-> h, tree |-> t]

AllOutcomes ==
  { Outcome("", "", TRUE, t) : t \in {TreeEmpty, TreeAB, TreeABE, TreeFlat} }
  \cup { Outcome("", "", FALSE, {}) }
  \cup { Outcome("exit status 1", se, FALSE, {}) : se \in {"", "conflict"} }
  \cup { Outcome("exit status 1", "conflict", TRUE, TreeAB),
         Outcome("executable file not found", "", FALSE, {}) }

ConcOutcomes ==
  { Outcome("", "", TRUE, TreeAB), Outcome("exit status 1", "conflict", FALSE, {}) }

\* I/O operations that can fail: os.MkdirTemp, os.WriteFile, reading a
\* directory during the walk, os.Open, io.Copy reading the file, and writing
\* to the response.
AllFaults == {"mkdir", "writeFile", "readdir", "open", "copy", "send"}

FullEnv == [outcomes |-> AllOutcomes, faults |-> AllFaults]
ConcEnv == [outcomes |-> ConcOutcomes, faults |-> {"writeFile", "copy"}]

(* ------------------------------ strings ------------------------------- *)

Min(a, b) == IF a <= b THEN a ELSE b

\* strings.HasPrefix, on sequences of tokens.
HasPrefix(s, prefix) ==
  Len(s) >= Len(prefix) /\ SubSeq(s, 1, Len(prefix)) = prefix

\* Byte order of the file names that occur, as sort.Strings orders them.
NameOrder ==
  <<"a", "b.txt", "c.txt", "constraints.txt", "e", "node_modules",
    "package-lock.json", "package.json", "requirements.txt", "site-packages">>

NameRank(n) ==
  IF \E i \in 1..Len(NameOrder) : NameOrder[i] = n
  THEN CHOOSE i \in 1..Len(NameOrder) : NameOrder[i] = n
  ELSE Len(NameOrder) + 1

RECURSIVE JoinSlash(_)
\* filepath.ToSlash of a relative path: its components separated by "/".
JoinSlash(p) ==
  IF p = <<>> THEN "."
  ELSE IF Len(p) = 1 THEN p[1]
  ELSE p[1] \o "/" \o JoinSlash(Tail(p))

(* ------------------------------ decoding ------------------------------ *)

MethodAllowedAny(m) == TRUE

\* r.Method != http.MethodPost
MethodAllowed(m) == m = MethodPost

LimitReaderNone(size, n) == size

\* io.LimitReader: how many bytes of a body of `size` bytes can be read.
LimitReader(size, n) == Min(size, n)

ZeroFiles == [RequirementsTXT |-> "", ConstraintsTXT |-> ""]

\* A struct field after decoding: the zero value when the key is missing.
Field(f, name) == IF name \in DOMAIN f THEN f[name] ELSE ""

\* json.NewDecoder(io.LimitReader(r.Body, 10MB)).Decode(&pyFiles): the first
\* JSON value is decoded; it must end within what the limited reader yields.
DecodeJSON(b, body) ==
  IF body.format # "json" \/ LimitReader(body.size, JSONLimit) < body.valueEnd
  THEN [ok |-> FALSE, msg |-> <<"Error decoding request body: ", "decode error">>,
        files |-> ZeroFiles]
  ELSE [ok |-> TRUE, msg |-> <<>>,
        files |-> [RequirementsTXT |-> Field(body.fields, PrimaryName(b)),
                   ConstraintsTXT |-> Field(body.fields, LockName(b))]]

\* r.ParseMultipartForm(20 << 20) fails without a boundary parameter or on a
\* body that is no multipart message; the size of file parts is not limited.
ParseMultipartForm(ct, body) == Len(ct) >= 2 /\ body.format = "multipart"

\* The multipart branch: r.FormFile of both fields and io.ReadAll.
DecodeMultipart(b, rq) ==
  IF ~ParseMultipartForm(rq.contentType, rq.body)
  THEN [ok |-> FALSE, msg |-> <<"Error parsing multipart form: ", "parse error">>,
        files |-> ZeroFiles]
  ELSE IF PrimaryName(b) \notin DOMAIN rq.body.fields
  THEN [ok |-> FALSE, msg |-> <<"Missing requirements.txt file in form-data">>,
        files |-> ZeroFiles]
  ELSE [ok |-> TRUE, msg |-> <<>>,
        files |-> [RequirementsTXT |-> rq.body.fields[PrimaryName(b)],
                   ConstraintsTXT |-> Field(rq.body.fields, LockName(b))]]

\* Which branch handles the request: only the pip build has the multipart one.
IsMultipart(b, rq) ==
  b = "pip" /\ HasPrefix(rq.contentType, <<"multipart/form-data">>)

Decode(b, rq) ==
  IF IsMultipart(b, rq) THEN DecodeMultipart(b, rq) ELSE DecodeJSON(b, rq.body)

MissingPrimaryNever(files) == FALSE

\* pyFiles.RequirementsTXT == ""
MissingPrimary(files) == files.RequirementsTXT = ""

UseLockAlways(files) == TRUE

\* pyFiles.ConstraintsTXT != ""
UseLock(files) == files.ConstraintsTXT # ""

(* ------------------------------ responses ----------------------------- *)

NoResponse ==
  [status |-> 0, header |-> [ContentType |-> "", ContentDisposition |-> ""],
   body |-> <<>>]

\* http.Error: plain-text content type, the status (unless one was already
\* written) and the message as the body.
httpError(wr, msg, code) ==
  [wr EXCEPT !.status = IF @ = 0 THEN code ELSE @,
             !.header.ContentType = "text/plain; charset=utf-8",
             !.body = @ \o msg]

\* The first byte written to w sends the header with status 200.
WriteStatus(wr) == [wr EXCEPT !.status = IF @ = 0 THEN StatusOK ELSE @]

(* ----------------------------- filesystem ----------------------------- *)

DirNode == [isDir |-> TRUE, data |-> ""]
FileNode(data) == [isDir |-> FALSE, data |-> data]

Exists(f, p) == p \in DOMAIN f

\* os.WriteFile: creates or overwrites.
WriteFile(f, p, data) == (p :> FileNode(data)) @@ f

Mkdir(f, p) == f @@ (p :> DirNode)

RemoveAllNothing(f, d) == f

\* os.RemoveAll(tmpDir): the directory and everything below it.
RemoveAll(f, d) ==
  [p \in {q \in DOMAIN f : ~HasPrefix(q, <<d>>)} |-> f[p]]

TempNames(b) ==
  { "/tmp/" \o workDirPrefix(b) \o ToString(i) : i \in 1..NumNames }

FreshNamesAny(b, f) == TempNames(b)

\* os.MkdirTemp retries until the name it drew does not exist.
FreshNames(b, f) == { n \in TempNames(b) : ~Exists(f, <<n>>) }

\* What os.MkdirTemp can return: a fresh name, or "" for an error.
MkdirResults(b, f, faults) ==
  FreshNames(b, f)
  \cup (IF "mkdir" \in faults \/ FreshNames(b, f) = {} THEN {""} ELSE {})

\* Whether os.WriteFile into dir can succeed (TRUE) or fail (FALSE).
WriteResults(f, dir, faults) ==
  IF ~Exists(f, dir) THEN {FALSE}
  ELSE IF "writeFile" \in faults THEN BOOLEAN ELSE {TRUE}

\* The content of an installed file: decided by the manifest the installer
\* read in its working directory, and by the file's place.
FileData(manifest, rel) == manifest \o ":" \o JoinSlash(rel)

\* The filesystem after the installer wrote its output directory.
Install(f, dir, b, o, manifest) ==
  IF ~o.hasOut THEN f
  ELSE LET out == <<dir, OutputDir(b)>>
           new == [p \in {out} \cup { out \o n.rel : n \in o.tree } |->
                     IF p = out THEN DirNode
                     ELSE LET n == CHOOSE m \in o.tree : out \o m.rel = p
                          IN IF n.isDir THEN DirNode
                             ELSE FileNode(FileData(manifest, n.rel))]
       IN new @@ f

Children(f, p) ==
  { q \in DOMAIN f : Len(q) = Len(p) + 1 /\ HasPrefix(q, p) }

RECURSIVE SortPaths(_)
\* The entries of a directory in the order filepath.Walk visits them.
SortPaths(S) ==
  IF S = {} THEN <<>>
  ELSE LET m == CHOOSE x \in S :
                  \A y \in S : NameRank(x[Len(x)]) <= NameRank(y[Len(y)])
       IN <<m>> \o SortPaths(S \ {m})

\* filepath.Rel(base, p) for p at or below base ("." is <<>>).
Rel(base, p) == SubSeq(p, Len(base) + 1, Len(p))

(* --------------------------- the installer ---------------------------- *)

\* pipArgs / npmCommand: the arguments the installer is started with.
InstallerArgs(b, files) ==
  IF b = "pip"
  THEN <<"install", "-r", "requirements.txt", "--target", "site-packages">>
       \o (IF UseLock(files) THEN <<"-c", "constraints.txt">> ELSE <<>>)
  ELSE <<IF UseLock(files) THEN "ci" ELSE "install">>

NoCmd ==
  [ran |-> FALSE, name |-> "", args |-> <<>>, Dir |-> "", err |-> "",
   stderr |-> "", manifest |-> "", lock |-> "", hasOut |-> FALSE, tree |-> {}]

\* What cmd.Run can do in directory dir: it cannot start in a missing one.
RunOutcomes(f, dir, outcomes) ==
  IF Exists(f, <<dir>>) THEN outcomes
  ELSE { Outcome("chdir: no such file or directory", "", FALSE, {}) }

\* The text of a manifest file as a process in dir reads it.
ReadManifest(f, dir, name) ==
  IF Exists(f, <<dir, name>>) THEN f[<<dir, name>>].data ELSE ""

InstallFailedBodyNoStderr(b, args, err, stderr) ==
  <<InstallerName(b) \o " install failed: ", err>>

\* fmt.Sprintf("pip install failed: %v\nStderr: %s", err, stderr.String())
InstallFailedBody(b, args, err, stderr) ==
  <<InstallerName(b) \o " " \o (IF b = "pip" THEN "install" ELSE args[1])
      \o " failed: ", err, "\nStderr: ", stderr>>

(* ------------------------------ the archive --------------------------- *)

NoZip == [created |-> FALSE, dir |-> <<>>, finalized |-> FALSE]

\* A directory's header: the name gets a trailing slash, stored.
DirEntry(zipPath) ==
  [Name |-> zipPath \o "/", Method |-> "Store", data |-> "", complete |-> TRUE]

\* zipWriter.Create(zipPath) and the bytes io.Copy wrote into it.
FileEntry(zipPath, data, complete) ==
  [Name |-> zipPath, Method |-> "Deflate", data |-> data, complete |-> complete]

RelBaseOutput(dir, b) == <<dir, OutputDir(b)>>

\* The directory zip names are relative to: filepath.Rel(tmpDir, path).
RelBase(dir, b) == <<dir>>

\* What can go wrong while walkFn handles one node.
NodeFaults(isDir, faults) ==
  {"none"} \cup (faults \cap (IF isDir THEN {"send", "readdir"}
                              ELSE {"send", "open", "copy"}))

\* Whether the deferred zipWriter.Close() can write the central directory
\* (TRUE) or fails (FALSE): a response that failed once stays failed.
CloseResults(ok, faults) ==
  IF ~ok THEN {FALSE}
  ELSE IF "send" \in faults THEN BOOLEAN ELSE {TRUE}

HeaderUnsetAlways(wr) == TRUE

\* w.Header().Get("Content-Type") == ""
HeaderUnset(wr) == wr.header.ContentType = ""

(* ------------------------------- actions ------------------------------ *)

Done(r, wr) ==
  /\ pc' = [pc EXCEPT ![r] = "done"]
  /\ w' = [w EXCEPT ![r] = wr]

\* handleInstall up to the temporary directory: method check, decoding of
\* either encoding and the check of the primary descriptor.
handleInstall(r) ==
  /\ pc[r] = "start"
  /\ IF ~MethodAllowed(req[r].method)
     THEN /\ Done(r, httpError(w[r], <<"Only POST method is allowed">>,
                               StatusMethodNotAllowed))
          /\ UNCHANGED <<bodyRead, pyFiles>>
     ELSE LET d == Decode(backend, req[r]) IN
          /\ bodyRead' = [bodyRead EXCEPT ![r] = TRUE]
          /\ pyFiles' = [pyFiles EXCEPT ![r] = d.files]
          /\ IF ~d.ok
             THEN Done(r, httpError(w[r], d.msg, StatusBadRequest))
             ELSE IF MissingPrimary(d.files)
             THEN Done(r, httpError(w[r],
                     <<"Missing " \o PrimaryName(backend) \o " in request">>,
                     StatusBadRequest))
             ELSE /\ pc' = [pc EXCEPT ![r] = "mkdir"]
                  /\ w' = w
  /\ UNCHANGED <<backend, env, req, tmpDir, fs, cmd, connOK, zipWriter, todo,
                 walkErr, logs>>

\* tmpDir, err := os.MkdirTemp("", workDirPrefix); defer os.RemoveAll(tmpDir)
MkdirTemp(r) ==
  /\ pc[r] = "mkdir"
  /\ \E n \in MkdirResults(backend, fs, env.faults) :
       IF n = ""
       THEN /\ Done(r, httpError(w[r],
                      <<"Failed to create temp directory: ", "mkdir error">>,
                      StatusInternalServerError))
            /\ UNCHANGED <<tmpDir, fs>>
       ELSE /\ tmpDir' = [tmpDir EXCEPT ![r] = n]
            /\ fs' = Mkdir(fs, <<n>>)
            /\ pc' = [pc EXCEPT ![r] = "writeReq"]
            /\ w' = w
  /\ UNCHANGED <<backend, env, req, bodyRead, pyFiles, cmd, connOK, zipWriter,
                 todo, walkErr, logs>>

\* os.WriteFile(filepath.Join(tmpDir, "requirements.txt"), ...)
WriteRequirements(r) ==
  /\ pc[r] = "writeReq"
  /\ \E ok \in WriteResults(fs, <<tmpDir[r]>>, env.faults) :
       IF ok
       THEN /\ fs' = WriteFile(fs, <<tmpDir[r], PrimaryName(backend)>>,
                               pyFiles[r].RequirementsTXT)
            /\ pc' = [pc EXCEPT ![r] =
                        IF UseLock(pyFiles[r]) THEN "writeCon" ELSE "run"]
            /\ w' = w
       ELSE /\ Done(r, httpError(w[r],
                      <<"Failed to write " \o PrimaryName(backend) \o ": ",
                        "write error">>, StatusInternalServerError))
            /\ fs' = RemoveAll(fs, tmpDir[r])
  /\ UNCHANGED <<backend, env, req, bodyRead, pyFiles, tmpDir, cmd, connOK,
                 zipWriter, todo, walkErr, logs>>

\* os.WriteFile(filepath.Join(tmpDir, "constraints.txt"), ...)
WriteConstraints(r) ==
  /\ pc[r] = "writeCon"
  /\ \E ok \in WriteResults(fs, <<tmpDir[r]>>, env.faults) :
       IF ok
       THEN /\ fs' = WriteFile(fs, <<tmpDir[r], LockName(backend)>>,
                               pyFiles[r].ConstraintsTXT)
            /\ pc' = [pc EXCEPT ![r] = "run"]
            /\ w' = w
       ELSE /\ Done(r, httpError(w[r],
                      <<"Failed to write " \o LockName(backend) \o ": ",
                        "write error">>, StatusInternalServerError))
            /\ fs' = RemoveAll(fs, tmpDir[r])
  /\ UNCHANGED <<backend, env, req, bodyRead, pyFiles, tmpDir, cmd, connOK,
                 zipWriter, todo, walkErr, logs>>

\* cmd.Run() in tmpDir; on failure the 500 response with stderr, on success
\* the success headers, zip.NewWriter(w) and the start of filepath.Walk (the
\* npm build's loop over filesToZip runs over an empty list).
RunInstaller(r) ==
  /\ pc[r] = "run"
  /\ \E o \in RunOutcomes(fs, tmpDir[r], env.outcomes) :
       LET args == InstallerArgs(backend, pyFiles[r])
           manifest == ReadManifest(fs, tmpDir[r], PrimaryName(backend))
           lock == ReadManifest(fs, tmpDir[r], LockName(backend))
       IN
       /\ cmd' = [cmd EXCEPT ![r] =
                    [ran |-> TRUE, name |-> InstallerName(backend),
                     args |-> args, Dir |-> tmpDir[r], err |-> o.err,
                     stderr |-> o.stderr, manifest |-> manifest, lock |-> lock,
                     hasOut |-> o.hasOut, tree |-> o.tree]]
       /\ IF o.err # ""
          THEN /\ logs' = [logs EXCEPT ![r] = Append(@, "install failed")]
               /\ Done(r, httpError(w[r],
                         InstallFailedBody(backend, args, o.err, o.stderr),
                         StatusInternalServerError))
               /\ fs' = RemoveAll(fs, tmpDir[r])
               /\ UNCHANGED <<zipWriter, todo>>
          ELSE /\ logs' = [logs EXCEPT ![r] = Append(@, "install completed")]
               /\ fs' = Install(fs, tmpDir[r], backend, o, manifest)
               /\ w' = [w EXCEPT ![r].header =
                          [ContentType |-> "application/zip",
                           ContentDisposition |-> Disposition(backend)]]
               /\ zipWriter' = [zipWriter EXCEPT ![r].created = TRUE]
               /\ todo' = [todo EXCEPT ![r] = <<<<tmpDir[r], OutputDir(backend)>>>>]
               /\ pc' = [pc EXCEPT ![r] = "walk"]
  /\ UNCHANGED <<backend, env, req, bodyRead, pyFiles, tmpDir, connOK, walkErr>>

\* One call of the function filepath.Walk is given, for the next path in
\* lexical pre-order.  Walk reads a directory's names before the call and
\* hands a failure to the function, which returns it without writing.
walkFn(r) ==
  /\ pc[r] = "walk"
  /\ todo[r] # <<>>
  /\ walkErr[r] = ""
  /\ LET path == Head(todo[r]) IN
     IF ~Exists(fs, path)
     THEN /\ walkErr' = [walkErr EXCEPT ![r] = "lstat"]
          /\ UNCHANGED <<connOK, zipWriter, todo>>
     ELSE \E fault \in NodeFaults(fs[path].isDir, env.faults) :
       LET relPath == Rel(RelBase(tmpDir[r], backend), path)
           zipPath == JoinSlash(relPath)
           skip == relPath = <<>>
           entries ==
             IF skip \/ fault \in {"send", "readdir"} THEN <<>>
             ELSE IF fs[path].isDir THEN <<DirEntry(zipPath)>>
             ELSE IF fault = "open" THEN <<FileEntry(zipPath, "", FALSE)>>
             ELSE IF fault = "copy" THEN <<FileEntry(zipPath, "", FALSE)>>
             ELSE <<FileEntry(zipPath, fs[path].data, TRUE)>>
           failed == fault # "none" /\ ~(skip /\ fault = "send")
       IN
       /\ zipWriter' = [zipWriter EXCEPT ![r].dir = @ \o entries]
       /\ walkErr' = [walkErr EXCEPT ![r] = IF failed THEN fault ELSE ""]
       /\ connOK' = [connOK EXCEPT ![r] = ~(failed /\ fault = "send")]
       /\ todo' = [todo EXCEPT ![r] =
                     IF failed THEN @
                     ELSE IF fs[path].isDir
                     THEN SortPaths(Children(fs, path)) \o Tail(@)
                     ELSE Tail(@)]
  /\ UNCHANGED <<backend, env, req, pc, bodyRead, pyFiles, tmpDir, fs, cmd, w,
                 logs>>

\* filepath.Walk has returned: the error branch or the success log, then the
\* deferred zipWriter.Close() and os.RemoveAll(tmpDir).
walkReturn(r) ==
  /\ pc[r] = "walk"
  /\ todo[r] = <<>> \/ walkErr[r] # ""
  /\ \E closed \in CloseResults(connOK[r], env.faults) :
       LET failed == walkErr[r] # ""
           afterErr ==
             IF failed /\ HeaderUnset(w[r])
             THEN httpError(w[r], <<"Error zipping files: ", walkErr[r]>>,
                            StatusInternalServerError)
             ELSE w[r]
       IN
       /\ logs' = [logs EXCEPT ![r] =
                     Append(@, IF failed THEN "walk error" ELSE "streamed")]
       /\ zipWriter' = [zipWriter EXCEPT ![r].finalized = closed]
       /\ connOK' = [connOK EXCEPT ![r] = closed]
       /\ Done(r, WriteStatus(afterErr))
       /\ fs' = RemoveAll(fs, tmpDir[r])
  /\ UNCHANGED <<backend, env, req, bodyRead, pyFiles, tmpDir, cmd, todo,
                 walkErr>>

Next ==
  \E r \in Requests :
    \/ handleInstall(r)
    \/ MkdirTemp(r)
    \/ WriteRequirements(r)
    \/ WriteConstraints(r)
    \/ RunInstaller(r)
    \/ walkFn(r)
    \/ walkReturn(r)

(* ------------------------------ behaviours ---------------------------- *)

InitHandlers ==
  /\ bodyRead = [r \in Requests |-> FALSE]
  /\ pyFiles = [r \in Requests |-> ZeroFiles]
  /\ tmpDir = [r \in Requests |-> ""]
  /\ fs = <<>>
  /\ cmd = [r \in Requests |-> NoCmd]
  /\ w = [r \in Requests |-> NoResponse]
  /\ connOK = [r \in Requests |-> TRUE]
  /\ zipWriter = [r \in Requests |-> NoZip]
  /\ todo = [r \in Requests |-> <<>>]
  /\ walkErr = [r \in Requests |-> ""]
  /\ logs = [r \in Requests |-> <<>>]

\* One client sends any request; the other connections stay idle.
Init ==
  /\ backend \in Backends
  /\ env = FullEnv
  /\ \E rq \in AllRequests(backend) :
       req = [r \in Requests |-> IF r = 1 THEN rq ELSE NoRequest]
  /\ pc = [r \in Requests |-> IF r = 1 THEN "start" ELSE "idle"]
  /\ InitHandlers

\* Every connection carries a valid request, all at the same time.
InitConc ==
  /\ backend \in Backends
  /\ env = ConcEnv
  /\ req \in [Requests -> ConcRequests(backend)]
  /\ pc = [r \in Requests |-> "start"]
  /\ InitHandlers

Spec == Init /\ [][Next]_vars

SpecConc == InitConc /\ [][Next]_vars

(* ------------------------------ the claims ---------------------------- *)

Returned(r) == pc[r] = "done"

Handled(r) == pc[r] \notin {"idle", "start"}

\* The request holds a workspace: between os.MkdirTemp and the return.
InFlight(r) == pc[r] \in {"writeReq", "writeCon", "run", "walk"}

NothingBelow(f, d) == \A q \in DOMAIN f : ~HasPrefix(q, <<d>>)

PrimaryAbsentOrEmpty(rq) ==
  \/ PrimaryName(backend) \notin DOMAIN rq.body.fields
  \/ rq.body.fields[PrimaryName(backend)] = ""

LockPresent(rq) == LockName(backend) \in DOMAIN rq.body.fields

\* The installer was started in its reproducible mode.
Reproducible(c) ==
  IF c.name = "pip"
  THEN \E i \in 1..(Len(c.args) - 1) :
         c.args[i] = "-c" /\ c.args[i + 1] = "constraints.txt"
  ELSE c.args = <<"ci">>

EntryNames(r) == { zipWriter[r].dir[i].Name : i \in 1..Len(zipWriter[r].dir) }

\* A node of the output tree named relative to the output directory.
SubtreeName(n) == JoinSlash(n.rel) \o (IF n.isDir THEN "/" ELSE "")

\* The same node named relative to the workspace root.
WorkspaceName(n) == OutputDir(backend) \o "/" \o SubtreeName(n)

\* The traversal returned no error and the archive was finalized.
CompleteArchive(r) ==
  /\ Returned(r)
  /\ w[r].status = StatusOK
  /\ zipWriter[r].created
  /\ walkErr[r] = ""
  /\ zipWriter[r].finalized

\* The request is decoded by the JSON branch.
JSONPath(rq) ==
  ~(backend = "pip" /\ Len(rq.contentType) >= 1
      /\ rq.contentType[1] = "multipart/form-data")

NoWorkspaceNoInstaller(r) == tmpDir[r] = "" /\ ~cmd[r].ran

\* C1: once handleInstall has created a workspace directory, neither the
\* directory nor anything below it exists when the handler returns, on every
\* exit path (write failure, installer failure, traversal failure, success).
C1_WorkspaceRemovedOnReturn ==
  [][\A r \in Requests :
       (pc[r] # "done" /\ pc'[r] = "done" /\ tmpDir'[r] # "")
         => NothingBelow(fs', tmpDir'[r])]_vars

C1_Witness ==
  \E r1, r2 \in Requests :
    /\ Returned(r1) /\ Returned(r2)
    /\ tmpDir[r1] # "" /\ tmpDir[r2] # ""
    /\ cmd[r1].ran /\ cmd[r1].err # "" /\ w[r1].status = StatusInternalServerError
    /\ walkErr[r2] = "copy" /\ w[r2].status = StatusOK
    /\ NothingBelow(fs, tmpDir[r1]) /\ NothingBelow(fs, tmpDir[r2])

\* C2: a POST request whose primary descriptor is absent or empty is answered
\* 400 in either encoding; no workspace is created, no installer is started.
C2_MissingPrimaryRejected ==
  \A r \in Requests :
    (Handled(r) /\ req[r].method = "POST" /\ PrimaryAbsentOrEmpty(req[r]))
      => /\ Returned(r)
         /\ w[r].status = StatusBadRequest
         /\ NoWorkspaceNoInstaller(r)
         /\ DOMAIN fs = {}

C2_Witness ==
  \E r \in Requests :
    /\ Returned(r) /\ backend = "pip" /\ req[r].method = "POST"
    /\ req[r].contentType = <<"multipart/form-data", "boundary=X">>
    /\ req[r].body.format = "multipart"
    /\ DOMAIN req[r].body.fields = {"constraints.txt"}
    /\ w[r].status = StatusBadRequest /\ NoWorkspaceNoInstaller(r)

\* C3 as stated: the installer runs in reproducible mode exactly when the
\* request carries the lock/constraints descriptor.
C3_LockedIffLockPresent ==
  \A r \in Requests :
    cmd[r].ran => (Reproducible(cmd[r]) <=> LockPresent(req[r]))

\* C3 as the code has it: the installer runs in reproducible mode exactly
\* when the request carries a non-empty lock/constraints descriptor, and then
\* the installer finds that text in the lock file of its working directory;
\* otherwise no lock file is there.
C3_LockedIffLockNonEmpty ==
  \A r \in Requests :
    cmd[r].ran =>
      /\ Reproducible(cmd[r])
           <=> (LockPresent(req[r]) /\ req[r].body.fields[LockName(backend)] # "")
      /\ Reproducible(cmd[r])
           => cmd[r].lock = req[r].body.fields[LockName(backend)]
      /\ ~Reproducible(cmd[r]) => cmd[r].lock = ""

C3_Witness ==
  \E r \in Requests :
    /\ cmd[r].ran /\ Reproducible(cmd[r])
    /\ cmd[r].lock = "flask==3.0" /\ cmd[r].manifest = "flask"

\* C4: when the installer fails, the response is 500, its body contains the
\* captured stderr, no success header is set and nothing is archived.
C4_InstallFailureIs500 ==
  \A r \in Requests :
    (cmd[r].ran /\ cmd[r].err # "")
      => /\ Returned(r)
         /\ w[r].status = StatusInternalServerError
         /\ \E i \in 1..Len(w[r].body) : w[r].body[i] = cmd[r].stderr
         /\ w[r].header.ContentType # "application/zip"
         /\ w[r].header.ContentDisposition = ""
         /\ ~zipWriter[r].created
         /\ zipWriter[r].dir = <<>>

C4_Witness ==
  \E r \in Requests :
    /\ Returned(r) /\ cmd[r].err = "exit status 1" /\ cmd[r].stderr = "conflict"
    /\ cmd[r].hasOut
    /\ w[r].status = StatusInternalServerError

\* C5: a zero exit without the output directory is answered 500, never 200
\* (stated for the responses that reached the client).
C5_MissingOutputIs500 ==
  \A r \in Requests :
    (Returned(r) /\ cmd[r].ran /\ cmd[r].err = "" /\ ~cmd[r].hasOut /\ connOK[r])
      => w[r].status = StatusInternalServerError

C7_WorkspacesIsolated ==
  /\ \A r1, r2 \in Requests :
       (r1 # r2 /\ InFlight(r1) /\ InFlight(r2)) => tmpDir[r1] # tmpDir[r2]
  /\ \A r \in Requests : InFlight(r) => Exists(fs, <<tmpDir[r]>>)
  /\ \A r \in Requests :
       cmd[r].ran => /\ cmd[r].Dir = tmpDir[r]
                     /\ cmd[r].manifest = pyFiles[r].RequirementsTXT
                     /\ cmd[r].lock = pyFiles[r].ConstraintsTXT
  /\ \A r \in Requests : \A i \in 1..Len(zipWriter[r].dir) :
       LET e == zipWriter[r].dir[i] IN
       (e.Method = "Deflate" /\ e.complete)
         => \E n \in cmd[r].tree :
              e.data = FileData(req[r].body.fields[PrimaryName(backend)], n.rel)

C7_Witness ==
  \E r1, r2 \in Requests :
    /\ pc[r1] = "walk" /\ pc[r2] = "walk"
    /\ pyFiles[r1].RequirementsTXT = "flask"
    /\ pyFiles[r2].RequirementsTXT = "django"
    /\ \E i \in 1..Len(zipWriter[r1].dir) :
         zipWriter[r1].dir[i].data = "flask:a/b.txt"
    /\ \E i \in 1..Len(zipWriter[r2].dir) :
         zipWriter[r2].dir[i].data = "django:a/b.txt"

C9_OnlyPostAllowed ==
  \A r \in Requests :
    (Handled(r) /\ req[r].method # "POST")
      => /\ Returned(r)
         /\ w[r].status = StatusMethodNotAllowed
         /\ ~bodyRead[r]
         /\ pyFiles[r] = ZeroFiles
         /\ NoWorkspaceNoInstaller(r)
         /\ DOMAIN fs = {}

C9_Witness ==
  \E r \in Requests :
    /\ Returned(r) /\ req[r].method = "GET"
    /\ req[r].body.format = "json" /\ ~PrimaryAbsentOrEmpty(req[r])
    /\ req[r].body.size = SmallBody
    /\ w[r].status = StatusMethodNotAllowed /\ ~bodyRead[r]

\* The request ended in a failure.
Failed(r) ==
  Returned(r) /\ ~(zipWriter[r].created /\ walkErr[r] = "" /\ connOK[r])

====
